---- MODULE Spec2Model ----
(***************************************************************************)
(* Paping: a TCP connectivity probe (src/main.go).                         *)
(*                                                                         *)
(* main validates os.Args, installs a signal channel, starts a goroutine   *)
(* that waits for a signal, prints the report and exits, and then spawns   *)
(* one ping goroutine per tick.  Every ping and printReport take the       *)
(* mutex embedded in the single ConnectionStats record.                    *)
(***************************************************************************)
EXTENDS Integers, Sequences, FiniteSets, TLC

\* ------------------------------------------------------------------------
\* Bounds of the model
\* ------------------------------------------------------------------------

\* Number of iterations of main's for-loop (probes launched) that are explored.
MaxProbes == 3

ProbeIds == 1..MaxProbes

\* ------------------------------------------------------------------------
\* Program constants
\* ------------------------------------------------------------------------

\* time.Duration.Milliseconds(): nanoseconds per millisecond.
NsPerMs == 1000000

\* Largest port isValidPort accepts.
MaxPort == 65535

\* Largest value of one dotted-decimal IPv4 field (net.ParseIP).
MaxOctet == 255

\* Exit status of logger.Fatal (log.Fatal calls os.Exit(1)).
FatalStatus == 1

\* Exit status of the Go runtime when an un-notified SIGINT/SIGTERM arrives.
KilledStatus == 2

\* Exit status passed to os.Exit by the signal goroutine.
ReportStatus == 0

\* Marker: the process has not exited.
NoExit == -1

\* Marker: a field printReport has not read / a probe that measured nothing.
NotRead == -1

\* Marker of the mutex: nobody holds it; the signal goroutine holds it.
NoHolder == 0
Reporter == -2

\* Values time.Since(startTime) takes in the model (nanoseconds): a clock
\* that did not advance, and two durations that share their truncated
\* millisecond but differ in nanoseconds.
Durations == {0, 1500000, 1900000}

\* ------------------------------------------------------------------------
\* Command lines (os.Args) the model starts from.  Strings are sequences of
\* one-character strings so that the parsers below can inspect them.
\* ------------------------------------------------------------------------

Prog == <<"p">>
Loopback == <<"1","2","7",".","0",".","0",".","1">>
LoopbackV6 == <<":",":","1">>
BadOctets == <<"9","9","9",".","9","9","9",".","9","9","9",".","9","9","9">>
NotAnIP == <<"n","o","t","-","a","n","-","i","p">>
ThreeFields == <<"1",".","2",".","3">>

ArgVectors ==
  { <<Prog>>,
    <<Prog, Loopback>>,
    <<Prog, Loopback, <<"8","0">>, <<"x">> >>,
    <<Prog, BadOctets, <<"8","0">> >>,
    <<Prog, NotAnIP, <<"8","0">> >>,
    <<Prog, ThreeFields, <<"8","0">> >>,
    <<Prog, Loopback, <<"6","5","5","3","6">> >>,
    <<Prog, Loopback, <<"-","1">> >>,
    <<Prog, Loopback, <<"8","0","a">> >>,
    <<Prog, Loopback, <<>> >>,
    <<Prog, Loopback, <<"-">> >>,
    <<Prog, Loopback, <<"0">> >>,
    <<Prog, LoopbackV6, <<"6","5","5","3","5">> >> }

\* ------------------------------------------------------------------------
\* Parsers
\* ------------------------------------------------------------------------

DigitChars == {"0","1","2","3","4","5","6","7","8","9"}

DigitVal(ch) ==
  CASE ch = "0" -> 0 [] ch = "1" -> 1 [] ch = "2" -> 2 [] ch = "3" -> 3
    [] ch = "4" -> 4 [] ch = "5" -> 5 [] ch = "6" -> 6 [] ch = "7" -> 7
    [] ch = "8" -> 8 [] ch = "9" -> 9

AllDigits(s) == \A i \in 1..Len(s) : s[i] \in DigitChars

RECURSIVE DecimalValue(_)
DecimalValue(s) ==
  IF s = <<>> THEN 0
  ELSE 10 * DecimalValue(SubSeq(s, 1, Len(s) - 1)) + DigitVal(s[Len(s)])

\* strconv.Atoi: an optional sign followed by at least one decimal digit.
AtoiDigits(s) ==
  IF s # <<>> /\ s[1] \in {"+", "-"} THEN Tail(s) ELSE s

AtoiErr(s) == AtoiDigits(s) = <<>> \/ ~AllDigits(AtoiDigits(s))

AtoiValue(s) ==
  IF AtoiErr(s) THEN 0
  ELSE IF s[1] = "-" THEN 0 - DecimalValue(AtoiDigits(s))
  ELSE DecimalValue(AtoiDigits(s))

\* The fields of s between the separators sep.
RECURSIVE SplitAt(_, _)
SplitAt(s, sep) ==
  IF \A i \in 1..Len(s) : s[i] # sep THEN <<s>>
  ELSE LET k == CHOOSE i \in 1..Len(s) :
                   s[i] = sep /\ \A j \in 1..(i - 1) : s[j] # sep
       IN <<SubSeq(s, 1, k - 1)>> \o SplitAt(SubSeq(s, k + 1, Len(s)), sep)

\* net.ParseIP on a dotted-decimal literal: four fields of one to three
\* digits, each at most 255, none with a leading zero.
IPv4FieldOk(f) ==
  /\ Len(f) \in 1..3
  /\ AllDigits(f)
  /\ (Len(f) > 1 => f[1] # "0")
  /\ DecimalValue(f) <= MaxOctet

ParseIPv4Ok(s) ==
  LET fs == SplitAt(s, ".")
  IN Len(fs) = 4 /\ \A i \in 1..4 : IPv4FieldOk(fs[i])

\* net.ParseIP on a literal with a colon: of the IPv6 grammar the model
\* covers the compressed loopback form only.
ParseIPv6Ok(s) == s = LoopbackV6

\* net.ParseIP dispatches on the first '.' or ':' of the literal.
ParseIPOk(s) ==
  LET marks == {i \in 1..Len(s) : s[i] \in {".", ":"}}
  IN /\ marks # {}
     /\ LET first == CHOOSE i \in marks : \A j \in marks : i <= j
        IN IF s[first] = "." THEN ParseIPv4Ok(s) ELSE ParseIPv6Ok(s)

isValidIP(ip) == ParseIPOk(ip)

isValidPort_NoUpper(port) == port >= 0 /\ port <= MaxPort + 1

isValidPort(port) == port >= 0 /\ port <= MaxPort


\* ------------------------------------------------------------------------
\* The ConnectionStats record and the statements of ping that change it
\* ------------------------------------------------------------------------

\* &ConnectionStats{}: every field zero, the mutex unlocked.
ZeroStats ==
  [Attempted |-> 0, Connected |-> 0, Failed |-> 0,
   MinTime |-> 0, MaxTime |-> 0, TotalTime |-> 0]

\* stats.Failed++
FailedInc_AsAttempt(s) == [s EXCEPT !.Attempted = @ + 1]

FailedInc(s) == [s EXCEPT !.Failed = @ + 1]

\* stats.Connected++
ConnectedInc(s) == [s EXCEPT !.Connected = @ + 1]

\* stats.TotalTime += duration
TotalAdd(s, d) == [s EXCEPT !.TotalTime = @ + d]

\* if stats.MinTime == 0 || duration < stats.MinTime { stats.MinTime = duration }
MinUpdate(s, d) ==
  IF s.MinTime = 0 \/ d < s.MinTime THEN [s EXCEPT !.MinTime = d] ELSE s

\* if duration > stats.MaxTime { stats.MaxTime = duration }
MaxUpdate_Flipped(s, d) ==
  IF d < s.MaxTime THEN [s EXCEPT !.MaxTime = d] ELSE s

MaxUpdate(s, d) ==
  IF d > s.MaxTime THEN [s EXCEPT !.MaxTime = d] ELSE s

\* stats.Attempted++
AttemptedInc_Skip(s) == s

AttemptedInc(s) == [s EXCEPT !.Attempted = @ + 1]

\* time.Duration.Milliseconds(): whole milliseconds, truncated.
Milliseconds(d) == d \div NsPerMs

\* ------------------------------------------------------------------------
\* State
\* ------------------------------------------------------------------------

VARIABLES
  args,       \* os.Args
  mpc,        \* position of main: "args","host","port","notify","spawn","loop","fatal"
  host,       \* main's host
  port,       \* main's port
  portCalls,  \* the calls of isValidPort made so far: argument and result
  notified,   \* signal.Notify(c, ...) has been called
  c,          \* number of signals buffered in the channel c (capacity 1)
  hpc,        \* position of the signal goroutine
  stats,      \* the fields of the shared ConnectionStats
  mu,         \* holder of the mutex of stats
  pc,         \* position of each ping goroutine
  dur,        \* ping's local duration, per goroutine
  launched,   \* iterations of main's loop completed
  wg,         \* counter of the WaitGroup
  exitCode,   \* exit status of the process, NoExit while it runs
  report,     \* what printReport has read and printed
  printCount, \* number of reports printed
  completed,  \* history: the pings that returned, in order, with their outcome
  tally       \* history: how often each ping incremented Connected or Failed

vars ==
  <<args, mpc, host, port, portCalls, notified, c, hpc, stats, mu, pc, dur,
    launched, wg, exitCode, report, printCount, completed, tally>>

mainVars == <<args, mpc, host, port, portCalls>>
probeVars == <<stats, mu, pc, dur, wg, completed, tally>>
reportVars == <<hpc, report, printCount>>

NoReport ==
  [Attempted |-> NotRead, Connected |-> NotRead, Failed |-> NotRead,
   rateNum |-> NotRead, rateDen |-> NotRead,
   Connected2 |-> NotRead, TotalTime |-> NotRead,
   MinTime |-> NotRead, MaxTime |-> NotRead,
   TotalMs |-> NotRead, MinMs |-> NotRead, MaxMs |-> NotRead]

Init ==
  /\ args \in ArgVectors
  /\ mpc = "args"
  /\ host = <<>>
  /\ port = 0
  /\ portCalls = <<>>
  /\ notified = FALSE
  /\ c = 0
  /\ hpc = "none"
  /\ stats = ZeroStats
  /\ mu = NoHolder
  /\ pc = [p \in ProbeIds |-> "idle"]
  /\ dur = [p \in ProbeIds |-> NotRead]
  /\ launched = 0
  /\ wg = 0
  /\ exitCode = NoExit
  /\ report = NoReport
  /\ printCount = 0
  /\ completed = <<>>
  /\ tally = [p \in ProbeIds |-> 0]

Alive == exitCode = NoExit

\* ------------------------------------------------------------------------
\* main
\* ------------------------------------------------------------------------

\* logger.Fatal: print and os.Exit(1).
Fatal ==
  /\ exitCode' = FatalStatus
  /\ mpc' = "fatal"

\* if len(os.Args) != 3 { logger.Fatal(...) }; host := os.Args[1]
CheckArgs_AtLeast ==
  /\ Alive /\ mpc = "args"
  /\ IF Len(args) < 3
       THEN Fatal /\ UNCHANGED host
       ELSE mpc' = "host" /\ host' = args[2] /\ UNCHANGED exitCode
  /\ UNCHANGED <<args, port, portCalls, notified, c, launched>>
  /\ UNCHANGED probeVars /\ UNCHANGED reportVars

CheckArgs ==
  /\ Alive /\ mpc = "args"
  /\ IF Len(args) # 3
       THEN Fatal /\ UNCHANGED host
       ELSE mpc' = "host" /\ host' = args[2] /\ UNCHANGED exitCode
  /\ UNCHANGED <<args, port, portCalls, notified, c, launched>>
  /\ UNCHANGED probeVars /\ UNCHANGED reportVars

\* if !isValidIP(host) { logger.Fatal(...) }
CheckHost ==
  /\ Alive /\ mpc = "host"
  /\ IF ~isValidIP(host)
       THEN Fatal
       ELSE mpc' = "port" /\ UNCHANGED exitCode
  /\ UNCHANGED <<args, host, port, portCalls, notified, c, launched>>
  /\ UNCHANGED probeVars /\ UNCHANGED reportVars

\* port, err := strconv.Atoi(os.Args[2])
\* if err != nil || !isValidPort(port) { logger.Fatal(...) }
CheckPort ==
  /\ Alive /\ mpc = "port"
  /\ port' = AtoiValue(args[3])
  /\ IF AtoiErr(args[3])
       THEN Fatal /\ UNCHANGED portCalls
       ELSE /\ portCalls' = Append(portCalls,
                 [arg |-> port', res |-> isValidPort(port')])
            /\ IF ~isValidPort(port')
                 THEN Fatal
                 ELSE mpc' = "notify" /\ UNCHANGED exitCode
  /\ UNCHANGED <<args, host, notified, c, launched>>
  /\ UNCHANGED probeVars /\ UNCHANGED reportVars

\* c := make(chan os.Signal, 1); signal.Notify(c, ...); stats := &ConnectionStats{}
InstallNotify ==
  /\ Alive /\ mpc = "notify"
  /\ notified' = TRUE
  /\ mpc' = "spawn"
  /\ UNCHANGED <<args, host, port, portCalls, c, launched, exitCode>>
  /\ UNCHANGED probeVars /\ UNCHANGED reportVars

\* go func() { <-c; printReport(stats); os.Exit(0) }()
SpawnReporter ==
  /\ Alive /\ mpc = "spawn"
  /\ hpc' = "recv"
  /\ mpc' = "loop"
  /\ UNCHANGED <<args, host, port, portCalls, notified, c, launched, exitCode,
                 report, printCount>>
  /\ UNCHANGED probeVars

\* One iteration of the for-loop: wg.Add(1); go func() {...}(); time.Sleep(...)
Launch_Awaited ==
  /\ Alive /\ mpc = "loop"
  /\ launched < MaxProbes
  /\ wg = 0
  /\ launched' = launched + 1
  /\ wg' = wg + 1
  /\ pc' = [pc EXCEPT ![launched + 1] = "lock"]
  /\ UNCHANGED <<args, mpc, host, port, portCalls, notified, c, exitCode,
                 stats, mu, dur, completed, tally>>
  /\ UNCHANGED reportVars

Launch ==
  /\ Alive /\ mpc = "loop"
  /\ launched < MaxProbes
  /\ launched' = launched + 1
  /\ wg' = wg + 1
  /\ pc' = [pc EXCEPT ![launched + 1] = "lock"]
  /\ UNCHANGED <<args, mpc, host, port, portCalls, notified, c, exitCode,
                 stats, mu, dur, completed, tally>>
  /\ UNCHANGED reportVars

\* ------------------------------------------------------------------------
\* Delivery of SIGINT / SIGTERM by the environment
\* ------------------------------------------------------------------------

\* Before signal.Notify the runtime's default action ends the process; after
\* it the signal is sent to c without blocking, and dropped when c is full.
Signal ==
  /\ Alive
  /\ IF notified
       THEN c' = 1 /\ UNCHANGED exitCode
       ELSE exitCode' = KilledStatus /\ UNCHANGED c
  /\ UNCHANGED <<launched, notified>>
  /\ UNCHANGED mainVars /\ UNCHANGED probeVars /\ UNCHANGED reportVars

\* ------------------------------------------------------------------------
\* ping, one goroutine per launched probe
\* ------------------------------------------------------------------------

mainRest == <<args, mpc, host, port, portCalls, notified, c, launched, exitCode>>

\* stats.Lock(); defer stats.Unlock(); startTime := time.Now()
PingLock_NoWait(p) ==
  /\ Alive /\ pc[p] = "lock"
  /\ mu' = p
  /\ pc' = [pc EXCEPT ![p] = "lookup"]
  /\ UNCHANGED <<stats, dur, wg, completed, tally>>
  /\ UNCHANGED mainRest /\ UNCHANGED reportVars

PingLock_InLaunchOrder(p) ==
  /\ Alive /\ pc[p] = "lock"
  /\ mu = NoHolder
  /\ \A q \in ProbeIds : q < p => pc[q] # "lock"
  /\ mu' = p
  /\ pc' = [pc EXCEPT ![p] = "lookup"]
  /\ UNCHANGED <<stats, dur, wg, completed, tally>>
  /\ UNCHANGED mainRest /\ UNCHANGED reportVars

PingLock(p) ==
  /\ Alive /\ pc[p] = "lock"
  /\ mu = NoHolder
  /\ mu' = p
  /\ pc' = [pc EXCEPT ![p] = "lookup"]
  /\ UNCHANGED <<stats, dur, wg, completed, tally>>
  /\ UNCHANGED mainRest /\ UNCHANGED reportVars

\* getIPInfo(host) returns an error: stats.Failed++; return
LookupFail_ThenDial(p) ==
  /\ Alive /\ pc[p] = "lookup"
  /\ stats' = FailedInc(stats)
  /\ tally' = [tally EXCEPT ![p] = @ + 1]
  /\ pc' = [pc EXCEPT ![p] = "dial"]
  /\ UNCHANGED <<mu, dur, wg, completed>>
  /\ UNCHANGED mainRest /\ UNCHANGED reportVars

LookupFail_Fatal(p) ==
  /\ Alive /\ pc[p] = "lookup"
  /\ stats' = FailedInc(stats)
  /\ tally' = [tally EXCEPT ![p] = @ + 1]
  /\ pc' = [pc EXCEPT ![p] = "ret"]
  /\ exitCode' = FatalStatus
  /\ UNCHANGED <<mu, dur, wg, completed>>
  /\ UNCHANGED <<args, mpc, host, port, portCalls, notified, c, launched>>
  /\ UNCHANGED reportVars

LookupFail(p) ==
  /\ Alive /\ pc[p] = "lookup"
  /\ stats' = FailedInc(stats)
  /\ tally' = [tally EXCEPT ![p] = @ + 1]
  /\ pc' = [pc EXCEPT ![p] = "ret"]
  /\ UNCHANGED <<mu, dur, wg, completed>>
  /\ UNCHANGED mainRest /\ UNCHANGED reportVars

\* getIPInfo(host) returns the organisation
LookupOk(p) ==
  /\ Alive /\ pc[p] = "lookup"
  /\ pc' = [pc EXCEPT ![p] = "dial"]
  /\ UNCHANGED <<stats, mu, dur, wg, completed, tally>>
  /\ UNCHANGED mainRest /\ UNCHANGED reportVars

\* net.DialTimeout returns an error: stats.Failed++; return
DialFail_FallThrough(p) ==
  /\ Alive /\ pc[p] = "dial"
  /\ stats' = FailedInc(stats)
  /\ tally' = [tally EXCEPT ![p] = @ + 1]
  /\ dur' = [dur EXCEPT ![p] = 0]
  /\ pc' = [pc EXCEPT ![p] = "l67"]
  /\ UNCHANGED <<mu, wg, completed>>
  /\ UNCHANGED mainRest /\ UNCHANGED reportVars

DialFail_CountsAttempt(p) ==
  /\ Alive /\ pc[p] = "dial"
  /\ stats' = AttemptedInc(FailedInc(stats))
  /\ tally' = [tally EXCEPT ![p] = @ + 1]
  /\ pc' = [pc EXCEPT ![p] = "ret"]
  /\ UNCHANGED <<mu, dur, wg, completed>>
  /\ UNCHANGED mainRest /\ UNCHANGED reportVars

DialFail_NoUnlock(p) ==
  /\ Alive /\ pc[p] = "dial"
  /\ stats' = FailedInc(stats)
  /\ tally' = [tally EXCEPT ![p] = @ + 1]
  /\ wg' = wg - 1
  /\ completed' = Append(completed, [id |-> p, d |-> dur[p]])
  /\ pc' = [pc EXCEPT ![p] = "done"]
  /\ UNCHANGED <<mu, dur>>
  /\ UNCHANGED mainRest /\ UNCHANGED reportVars

DialFail(p) ==
  /\ Alive /\ pc[p] = "dial"
  /\ stats' = FailedInc(stats)
  /\ tally' = [tally EXCEPT ![p] = @ + 1]
  /\ pc' = [pc EXCEPT ![p] = "ret"]
  /\ UNCHANGED <<mu, dur, wg, completed>>
  /\ UNCHANGED mainRest /\ UNCHANGED reportVars

\* net.DialTimeout succeeds; duration := time.Since(startTime); the log line
DialOk(p) ==
  /\ Alive /\ pc[p] = "dial"
  /\ \E d \in Durations : dur' = [dur EXCEPT ![p] = d]
  /\ pc' = [pc EXCEPT ![p] = "l67"]
  /\ UNCHANGED <<stats, mu, wg, completed, tally>>
  /\ UNCHANGED mainRest /\ UNCHANGED reportVars

\* stats.Connected++
PingConnected(p) ==
  /\ Alive /\ pc[p] = "l67"
  /\ stats' = ConnectedInc(stats)
  /\ tally' = [tally EXCEPT ![p] = @ + 1]
  /\ pc' = [pc EXCEPT ![p] = "l68"]
  /\ UNCHANGED <<mu, dur, wg, completed>>
  /\ UNCHANGED mainRest /\ UNCHANGED reportVars

\* stats.TotalTime += duration
PingTotal(p) ==
  /\ Alive /\ pc[p] = "l68"
  /\ stats' = TotalAdd(stats, dur[p])
  /\ pc' = [pc EXCEPT ![p] = "l70"]
  /\ UNCHANGED <<mu, dur, wg, completed, tally>>
  /\ UNCHANGED mainRest /\ UNCHANGED reportVars

\* the MinTime statement
PingMin(p) ==
  /\ Alive /\ pc[p] = "l70"
  /\ stats' = MinUpdate(stats, dur[p])
  /\ pc' = [pc EXCEPT ![p] = "l73"]
  /\ UNCHANGED <<mu, dur, wg, completed, tally>>
  /\ UNCHANGED mainRest /\ UNCHANGED reportVars

\* the MaxTime statement
PingMax(p) ==
  /\ Alive /\ pc[p] = "l73"
  /\ stats' = MaxUpdate(stats, dur[p])
  /\ pc' = [pc EXCEPT ![p] = "l76"]
  /\ UNCHANGED <<mu, dur, wg, completed, tally>>
  /\ UNCHANGED mainRest /\ UNCHANGED reportVars

\* stats.Attempted++
PingAttempted(p) ==
  /\ Alive /\ pc[p] = "l76"
  /\ stats' = AttemptedInc(stats)
  /\ pc' = [pc EXCEPT ![p] = "ret"]
  /\ UNCHANGED <<mu, dur, wg, completed, tally>>
  /\ UNCHANGED mainRest /\ UNCHANGED reportVars

\* ping returns: the deferred conn.Close() and stats.Unlock(), then wg.Done()
PingReturn_KeepLock(p) ==
  /\ Alive /\ pc[p] = "ret"
  /\ wg' = wg - 1
  /\ completed' = Append(completed, [id |-> p, d |-> dur[p]])
  /\ pc' = [pc EXCEPT ![p] = "done"]
  /\ UNCHANGED <<mu, stats, dur, tally>>
  /\ UNCHANGED mainRest /\ UNCHANGED reportVars

PingReturn(p) ==
  /\ Alive /\ pc[p] = "ret"
  /\ mu' = NoHolder
  /\ wg' = wg - 1
  /\ completed' = Append(completed, [id |-> p, d |-> dur[p]])
  /\ pc' = [pc EXCEPT ![p] = "done"]
  /\ UNCHANGED <<stats, dur, tally>>
  /\ UNCHANGED mainRest /\ UNCHANGED reportVars

PingStep(p) ==
  \/ PingLock(p)
  \/ LookupFail(p)
  \/ LookupOk(p)
  \/ DialFail(p)
  \/ DialOk(p)
  \/ PingConnected(p)
  \/ PingTotal(p)
  \/ PingMin(p)
  \/ PingMax(p)
  \/ PingAttempted(p)
  \/ PingReturn(p)

\* ------------------------------------------------------------------------
\* The signal goroutine and printReport
\* ------------------------------------------------------------------------

reportRest == <<args, mpc, host, port, portCalls, notified, launched>>

\* <-c
ReportRecv ==
  /\ Alive /\ hpc = "recv"
  /\ c = 1
  /\ c' = 0
  /\ hpc' = "lock"
  /\ UNCHANGED <<report, printCount, exitCode>>
  /\ UNCHANGED reportRest /\ UNCHANGED probeVars

\* printReport: stats.Lock(); defer stats.Unlock()
ReportLock_NoLock ==
  /\ Alive /\ hpc = "lock"
  /\ hpc' = "rate"
  /\ UNCHANGED <<c, report, printCount, exitCode>>
  /\ UNCHANGED reportRest /\ UNCHANGED probeVars

ReportLock ==
  /\ Alive /\ hpc = "lock"
  /\ mu = NoHolder
  /\ mu' = Reporter
  /\ hpc' = "rate"
  /\ UNCHANGED <<c, report, printCount, exitCode>>
  /\ UNCHANGED reportRest
  /\ UNCHANGED <<stats, pc, dur, wg, completed, tally>>

\* successRate := float64(Connected) / float64(Attempted) * 100 and the two
\* Printf calls that show Attempted, Connected, Failed and successRate.  The
\* rate is kept as numerator and denominator: 0/0 is the NaN Go prints.
ReportRate ==
  /\ Alive /\ hpc = "rate"
  /\ report' = [report EXCEPT !.Attempted = stats.Attempted,
                              !.Connected = stats.Connected,
                              !.Failed = stats.Failed,
                              !.rateNum = stats.Connected * 100,
                              !.rateDen = stats.Attempted]
  /\ printCount' = printCount + 1
  /\ hpc' = "times"
  /\ UNCHANGED <<c, exitCode>>
  /\ UNCHANGED reportRest /\ UNCHANGED probeVars

\* if stats.Connected > 0 { averageTime := ...; Printf(Minimum, Maximum, Average) }
ReportTimes ==
  /\ Alive /\ hpc = "times"
  /\ report' =
       IF stats.Connected > 0
         THEN [report EXCEPT !.Connected2 = stats.Connected,
                             !.TotalTime = stats.TotalTime,
                             !.MinTime = stats.MinTime,
                             !.MaxTime = stats.MaxTime,
                             !.TotalMs = Milliseconds(stats.TotalTime),
                             !.MinMs = Milliseconds(stats.MinTime),
                             !.MaxMs = Milliseconds(stats.MaxTime)]
         ELSE [report EXCEPT !.Connected2 = stats.Connected]
  /\ hpc' = "unlock"
  /\ UNCHANGED <<c, printCount, exitCode>>
  /\ UNCHANGED reportRest /\ UNCHANGED probeVars

\* printReport returns: the deferred stats.Unlock()
ReportReturn ==
  /\ Alive /\ hpc = "unlock"
  /\ mu' = NoHolder
  /\ hpc' = "exit"
  /\ UNCHANGED <<c, report, printCount, exitCode>>
  /\ UNCHANGED reportRest
  /\ UNCHANGED <<stats, pc, dur, wg, completed, tally>>

\* os.Exit(0)
ReportExit_Status1 ==
  /\ Alive /\ hpc = "exit"
  /\ exitCode' = FatalStatus
  /\ hpc' = "done"
  /\ UNCHANGED <<c, report, printCount>>
  /\ UNCHANGED reportRest /\ UNCHANGED probeVars

ReportExit_AfterWait ==
  /\ Alive /\ hpc = "exit"
  /\ wg = 0
  /\ exitCode' = ReportStatus
  /\ hpc' = "done"
  /\ UNCHANGED <<c, report, printCount>>
  /\ UNCHANGED reportRest /\ UNCHANGED probeVars

ReportExit ==
  /\ Alive /\ hpc = "exit"
  /\ exitCode' = ReportStatus
  /\ hpc' = "done"
  /\ UNCHANGED <<c, report, printCount>>
  /\ UNCHANGED reportRest /\ UNCHANGED probeVars

ReportStep ==
  \/ ReportRecv
  \/ ReportLock
  \/ ReportRate
  \/ ReportTimes
  \/ ReportReturn
  \/ ReportExit

\* ------------------------------------------------------------------------
\* Specifications
\* ------------------------------------------------------------------------

MainStep ==
  \/ CheckArgs
  \/ CheckHost
  \/ CheckPort
  \/ InstallNotify
  \/ SpawnReporter
  \/ Launch

Next ==
  \/ MainStep
  \/ Signal
  \/ \E p \in ProbeIds : PingStep(p)
  \/ ReportStep

Spec == Init /\ [][Next]_vars

\* Fair scheduling of the goroutines, every lookup and connect returning, and
\* a mutex that does not starve a waiter (sync.Mutex hands the lock to the
\* longest waiter once it has waited 1ms).  No fairness for Signal: the
\* environment need not send one.
Fairness ==
  /\ WF_vars(MainStep)
  /\ \A p \in ProbeIds : WF_vars(PingStep(p))
  /\ SF_vars(ReportLock)
  /\ WF_vars(ReportStep)

\* The liveness of the probe loop is explored from one command line that
\* passes the validation; host and port play no part after it.
FairInit == Init /\ args = <<Prog, LoopbackV6, <<"6","5","5","3","5">> >>

FairSpec == FairInit /\ [][Next]_vars /\ Fairness

\* ------------------------------------------------------------------------
\* Notions the properties are stated in
\* ------------------------------------------------------------------------

\* No ping is between its Lock and its Unlock.
NoProbeInside == mu \notin ProbeIds

\* The pings that have returned: how many connected, how many failed.
Succeeded == {i \in 1..Len(completed) : completed[i].d # NotRead}
Failures == {i \in 1..Len(completed) : completed[i].d = NotRead}

\* The record after one whole update of a probe with outcome o.
WholeUpdate(s, o) ==
  IF o.d = NotRead
    THEN [s EXCEPT !.Failed = @ + 1]
    ELSE [Attempted |-> s.Attempted + 1,
          Connected |-> s.Connected + 1,
          Failed |-> s.Failed,
          MinTime |-> IF s.MinTime = 0 \/ o.d < s.MinTime THEN o.d ELSE s.MinTime,
          MaxTime |-> IF o.d > s.MaxTime THEN o.d ELSE s.MaxTime,
          TotalTime |-> s.TotalTime + o.d]

\* The record after the whole updates of the outcomes seq, in order.
RECURSIVE StatsAfter(_)
StatsAfter(seq) ==
  IF seq = <<>> THEN ZeroStats
  ELSE WholeUpdate(StatsAfter(SubSeq(seq, 1, Len(seq) - 1)), seq[Len(seq)])

\* Every field printReport has read so far has the value it has in s.
Agrees(r, s) ==
  /\ r.Attempted \in {NotRead, s.Attempted}
  /\ r.Connected \in {NotRead, s.Connected}
  /\ r.Failed \in {NotRead, s.Failed}
  /\ r.Connected2 \in {NotRead, s.Connected}
  /\ r.TotalTime \in {NotRead, s.TotalTime}
  /\ r.MinTime \in {NotRead, s.MinTime}
  /\ r.MaxTime \in {NotRead, s.MaxTime}

RECURSIVE SumTally(_)
SumTally(n) == IF n = 0 THEN 0 ELSE tally[n] + SumTally(n - 1)

\* The command lines of ArgVectors that have exactly two positional
\* arguments, a valid IP literal and an integer port in 0..65535.
ValidCommandLines ==
  { <<Prog, Loopback, <<"0">> >>,
    <<Prog, LoopbackV6, <<"6","5","5","3","5">> >> }

\* ------------------------------------------------------------------------
\* Properties
\* ------------------------------------------------------------------------

\* C1: whenever no ping is inside its body, with S of the returned pings
\* successful and F failed, Failed = F, Connected = S and Attempted = S.
C1_CountsMatchOutcomes ==
  NoProbeInside =>
    /\ stats.Failed = Cardinality(Failures)
    /\ stats.Connected = Cardinality(Succeeded)
    /\ stats.Attempted = Cardinality(Succeeded)
    /\ Cardinality(Succeeded) + Cardinality(Failures) = Len(completed)

C1_Witness ==
  /\ NoProbeInside
  /\ Cardinality(Succeeded) >= 1
  /\ Cardinality(Failures) >= 1
  /\ \E p \in ProbeIds : pc[p] = "lock"

\* C2: everything printReport has read agrees with the record as it was after
\* some prefix of the whole updates of the pings that returned: no field is
\* seen with a part of an update applied, and no update is missing from it.
C2_ReportReadsPrefixSnapshot ==
  \E k \in 0..Len(completed) : Agrees(report, StatsAfter(SubSeq(completed, 1, k)))

C2_Witness ==
  /\ hpc = "done"
  /\ report.Connected2 >= 1
  /\ report.Failed >= 1
  /\ report.TotalTime > 0
  /\ \E p \in ProbeIds : pc[p] = "lock"

\* C3: a signal buffered in c (received after signal.Notify) leads to the
\* report being printed and the process exiting with status 0.
C3_SignalLeadsToReportAndExit ==
  (c = 1) ~> (exitCode = ReportStatus /\ printCount = 1)

C3_Witness ==
  /\ exitCode = ReportStatus
  /\ printCount = 1
  /\ Len(completed) >= 1
  /\ \E p \in ProbeIds : pc[p] = "lock"

\* C4 as stated: at most one report, and no field of stats changes from the
\* moment printReport has the lock until the process exits.
C4_NoChangeUntilExit ==
  [][ /\ printCount' <= 1
      /\ (hpc \in {"rate", "times", "unlock", "exit"} => stats' = stats) ]_vars

\* C4 amended: at most one report, and no field of stats changes from the
\* moment printReport has the lock until printReport returns and releases it.
C4_NoChangeWhileReporting ==
  [][ /\ printCount' <= 1
      /\ (hpc \in {"rate", "times", "unlock"} => stats' = stats) ]_vars

C4_Witness ==
  /\ hpc = "unlock"
  /\ printCount = 1
  /\ c = 1
  /\ stats.Connected >= 1
  /\ \E p \in ProbeIds : pc[p] = "lock"

\* C5: with at least one successful probe and no ping inside its body,
\* MinTime <= MaxTime.
C5_MinLeMax ==
  (stats.Connected > 0 /\ NoProbeInside) => stats.MinTime <= stats.MaxTime

C5_Witness ==
  /\ NoProbeInside
  /\ stats.Connected >= 2
  /\ 0 < stats.MinTime
  /\ stats.MinTime < stats.MaxTime

\* C6 as stated, for probes whose durations were all positive: the average
\* TotalTime / Connected lies within [MinTime, MaxTime], and so does the
\* printed average of the truncated milliseconds within the printed extrema.
C6_AverageWithinExtrema ==
  (\A i \in Succeeded : completed[i].d > 0) =>
    /\ (stats.Connected > 0 /\ NoProbeInside) =>
         /\ stats.MinTime * stats.Connected <= stats.TotalTime
         /\ stats.TotalTime <= stats.MaxTime * stats.Connected
    /\ report.TotalMs # NotRead =>
         /\ report.MinMs * report.Connected2 <= report.TotalMs
         /\ report.TotalMs <= report.MaxMs * report.Connected2

\* C7: the report of a process that exits through the signal goroutine shows
\* Attempted <= Connected + Failed, and the exit status is 0.
C7_ReportCountsConsistent ==
  /\ report.Attempted # NotRead =>
       report.Attempted <= report.Connected + report.Failed
  /\ hpc = "done" => (exitCode = ReportStatus /\ report.Attempted # NotRead)

C7_Witness ==
  /\ hpc = "done"
  /\ exitCode = ReportStatus
  /\ Len(completed) >= 2
  /\ report.Connected >= 1
  /\ report.Failed >= 1

\* C8: with a command line that is not a valid one, main never gets past the
\* validation and exits only with a non-zero status: no probe is launched,
\* signal.Notify is not called, the signal goroutine is not started, and the
\* record and its mutex are untouched.
C8_InvalidCommandLineNeverProbes ==
  args \notin ValidCommandLines =>
    /\ mpc \in {"args", "host", "port", "fatal"}
    /\ (mpc = "fatal" => exitCode = FatalStatus)
    /\ exitCode \in {NoExit, FatalStatus, KilledStatus}
    /\ launched = 0 /\ wg = 0
    /\ \A p \in ProbeIds : pc[p] = "idle"
    /\ ~notified /\ c = 0
    /\ hpc = "none" /\ printCount = 0
    /\ stats = ZeroStats /\ mu = NoHolder

C8_Witness ==
  /\ args = <<Prog, BadOctets, <<"8","0">> >>
  /\ mpc = "fatal"
  /\ exitCode = FatalStatus

\* C9: every call of isValidPort returned true exactly when its argument is
\* in 0..65535.
C9_IsValidPortIffInRange ==
  \A i \in 1..Len(portCalls) :
    portCalls[i].res <=> (0 <= portCalls[i].arg /\ portCalls[i].arg <= 65535)

C9_Witness ==
  /\ Len(portCalls) = 1
  /\ portCalls[1].arg = 65536
  /\ portCalls[1].res = FALSE

\* C10: Connected + Failed is at most the number of probes launched; it is
\* the sum of what the launched probes added, and no probe added more than 1.
C10_TallyBounded ==
  /\ stats.Connected + stats.Failed <= launched
  /\ stats.Connected + stats.Failed = SumTally(MaxProbes)
  /\ \A p \in ProbeIds : tally[p] <= 1 /\ (p > launched => tally[p] = 0)

C10_Witness ==
  /\ launched >= 2
  /\ stats.Connected + stats.Failed = launched
  /\ stats.Connected >= 1
  /\ stats.Failed >= 1

\* The positions of ping between its Lock and its Unlock.
InsidePing == {"lookup", "dial", "l67", "l68", "l70", "l73", "l76", "ret"}

\* The probes that are between their Lock and their Unlock.
Inside == {p \in ProbeIds : pc[p] \in InsidePing}

\* C11: at most one probe is past its Lock, and it is the holder of the
\* mutex; every other launched, unfinished probe is at its Lock; while
\* printReport runs its body it holds the mutex and no probe is inside ping.
C11_ProbesSerialized ==
  /\ Cardinality(Inside) <= 1
  /\ \A p \in ProbeIds : p \in Inside <=> mu = p
  /\ \A p \in ProbeIds :
       (p <= launched /\ pc[p] # "done" /\ mu # p) => pc[p] = "lock"
  /\ hpc \in {"rate", "times", "unlock"} => (mu = Reporter /\ Inside = {})

C11_Witness ==
  /\ \E p \in ProbeIds : pc[p] = "dial"
  /\ Cardinality({p \in ProbeIds : pc[p] = "lock"}) >= 2
  /\ hpc = "lock"

\* C12: a probe that fails at the lookup or at the connect adds exactly 1 to
\* Failed and changes no other field, then only returns; a probe passes from
\* the lookup to the connect only without having changed the record.
C12_FailureOnlyCountsFailed ==
  [][ \A p \in ProbeIds :
        /\ (pc[p] \in {"lookup", "dial"} /\ pc'[p] \notin {"lookup", "dial"}
              /\ dur'[p] = NotRead)
             => (stats' = [stats EXCEPT !.Failed = @ + 1] /\ pc'[p] = "ret")
        /\ (pc[p] = "lookup" /\ pc'[p] # "lookup")
             => (pc'[p] = "ret" \/ (pc'[p] = "dial" /\ stats' = stats))
        /\ (pc[p] = "ret" /\ dur[p] = NotRead)
             => (stats' = stats /\ pc'[p] \in {"ret", "done"}) ]_vars

C12_Witness ==
  /\ \E p \in ProbeIds : pc[p] = "ret" /\ dur[p] = NotRead
  /\ stats.Failed >= 2
  /\ stats.Connected >= 1
  /\ stats.TotalTime > 0

\* C13: once main is in its loop it stays there, whatever the probes do; the
\* process leaves the loop only by the os.Exit(0) of the signal goroutine; a
\* probe that has failed only returns, it looks up and connects no more; and
\* the next probe can be launched whatever number of probes failed.
C13_FailuresNeverFatal ==
  [][ /\ (mpc = "loop" => mpc' = "loop")
      /\ (mpc = "loop" /\ Alive /\ exitCode' # NoExit)
           => (hpc = "exit" /\ hpc' = "done" /\ exitCode' = ReportStatus)
      /\ \A p \in ProbeIds :
           (pc[p] \in {"ret", "done"} => pc'[p] \in {"ret", "done"})
      /\ (mpc = "loop" /\ Alive /\ launched < MaxProbes) => ENABLED Launch
    ]_vars

C13_Witness ==
  /\ Alive /\ mpc = "loop"
  /\ stats.Failed >= 2
  /\ stats.Connected = 0
  /\ \E p \in ProbeIds : pc[p] = "lock"

\* The durations of the successful probes that have returned.
SuccessDurations == {completed[i].d : i \in Succeeded}

RECURSIVE SumDurations(_)
SumDurations(n) ==
  IF n = 0 THEN 0
  ELSE SumDurations(n - 1) + (IF n \in Succeeded THEN completed[n].d ELSE 0)

C15_RateNeverDividesByZero ==
  report.rateDen # 0

\* C16: with no ping inside its body Attempted = Connected, and a report
\* that shows Attempted > 0 shows a success rate of exactly 100.
C16_RateAlwaysHundred ==
  /\ NoProbeInside => stats.Attempted = stats.Connected
  /\ report.rateDen > 0 => report.rateNum = 100 * report.rateDen

C16_Witness ==
  /\ hpc = "done"
  /\ report.rateDen >= 1
  /\ report.Failed >= 2

C18_AnyWaiterMayAcquire ==
  /\ (Alive /\ mu = NoHolder) =>
       \A p \in ProbeIds : pc[p] = "lock" => ENABLED PingLock(p)
  /\ \A i, j \in 1..Len(completed) :
       /\ completed[i].id <= launched
       /\ (i # j => completed[i].id # completed[j].id)

C18_Witness ==
  \E i, j \in 1..Len(completed) :
    i < j /\ completed[i].id > completed[j].id

\* C19: the loop launches the next probe whatever number of probes is
\* unfinished, so the probes waiting for the mutex pile up behind a holder
\* that stays in its lookup or connect; the WaitGroup counts the unfinished.
C19_LaunchIgnoresBacklog ==
  /\ (Alive /\ mpc = "loop" /\ launched < MaxProbes) => ENABLED Launch
  /\ wg = launched - Cardinality({p \in ProbeIds : pc[p] = "done"})
  /\ wg = Cardinality(Inside) + Cardinality({p \in ProbeIds : pc[p] = "lock"})

C19_Witness ==
  /\ Alive
  /\ \E p \in ProbeIds : pc[p] \in {"lookup", "dial"}
  /\ Cardinality({p \in ProbeIds : pc[p] = "lock"}) = MaxProbes - 1

\* C20: a probe that has returned does not hold the mutex, nor does the
\* signal goroutine once printReport has returned; and a held mutex becomes
\* free again (every Unlock frees it), unless the process exits first.
C20_LockAlwaysReleased ==
  /\ [](\A p \in ProbeIds : pc[p] \in {"idle", "lock", "done"} => mu # p)
  /\ [](hpc \in {"none", "recv", "lock", "exit", "done"} => mu # Reporter)
  /\ (mu # NoHolder) ~> (mu = NoHolder \/ ~Alive)

C20_Witness ==
  /\ mu = NoHolder
  /\ hpc = "exit"
  /\ Cardinality(Failures) >= 1
  /\ Cardinality(Succeeded) >= 1
  /\ \E p \in ProbeIds : pc[p] = "lock"

====
